---- MODULE Spec2Model ----
(***************************************************************************)
(* Model of slam.repository.Repository (src/src/slam/repository.py): the   *)
(* lazily resolved repository handler, the topologically ordered project   *)
(* list, the vcs and host bindings and the derived is_monorepo property.   *)
(*                                                                         *)
(* A project is identified by its id.  Ids are strings in the program; the *)
(* model uses the naturals 1..n with their order standing for the string   *)
(* order of the ids.  A project's distribution name is its id, so that a   *)
(* declared dependency name n refers to project n if the handler returned  *)
(* a project n, and is a dangling name otherwise.                          *)
(***************************************************************************)
EXTENDS Integers, Sequences, FiniteSets, TLC

\* ---------------------------------------------------------------- bounds
\* Largest project id a handler may return from get_projects.
MaxProjects == 3
\* Largest project id a handler may return in the accessor state machine.
RepoProjects == 2
\* Number of accessor calls made on one Repository.
MaxCalls == 3

\* The number of callers that use one Repository at the same time.
NumCallers == 2

\* ------------------------------------------------------------ sequences
Range(s) == {s[i] : i \in DOMAIN s}

IndexOf(s, x) == CHOOSE i \in DOMAIN s : s[i] = x

\* All enumerations (sequences without repetition) of the finite set S.
Enumerations(S) ==
  {s \in [1..Cardinality(S) -> S] : \A i, j \in 1..Cardinality(S) : s[i] = s[j] => i = j}

\* ------------------------------------------------------------- projects
\* Project.id, the sorting key of both sorts in _get_projects.
ProjectId(p) == p

\* Project.dist_name(): the name other projects declare a dependency on.
dist_name(p) == p

\* Insert x into the sequence s, sorted by key ascending, after the elements
\* with an equal key (sorted() is stable).
RECURSIVE InsertSorted(_, _)
InsertSorted(s, x) ==
  IF s = <<>> THEN <<x>>
  ELSE IF ProjectId(x) < ProjectId(Head(s)) THEN <<x>> \o s
  ELSE <<Head(s)>> \o InsertSorted(Tail(s), x)

RECURSIVE SortedFrom(_, _)
SortedFrom(acc, rest) ==
  IF rest = <<>> THEN acc ELSE SortedFrom(InsertSorted(acc, Head(rest)), Tail(rest))

\* sorted(..., key=lambda p: p.id)
sorted_by_id(raw) == SortedFrom(<<>>, raw)

\* Project.get_interdependencies(projects): the projects of `projects`, other
\* than the project itself, whose distribution name the project declares a
\* dependency on, in the order of `projects`.
get_interdependencies(project, projects, deps) ==
  SelectSeq(projects, LAMBDA q : q # project /\ dist_name(q) \in deps[project])

\* -------------------------------------------------------------- DiGraph
\* nodes: the node keys in insertion order; edges: pairs <<from, to>>.
EmptyGraph == [nodes |-> <<>>, edges |-> {}]

\* DiGraph.add_node: a node that exists already keeps its place and edges.
add_node(g, n) ==
  IF n \in Range(g.nodes) THEN g ELSE [g EXCEPT !.nodes = Append(g.nodes, n)]

\* DiGraph.add_edge(a, b): an edge a -> b between two existing nodes.
add_edge(g, a, b) == [g EXCEPT !.edges = g.edges \cup {<<a, b>>}]

predecessors(g, n) == {e[1] : e \in {f \in g.edges : f[2] = n}}

\* ------------------------------------------------------ topological_sort
\* The result of a sort: the order, or the circular dependency error.
Sorted(order) == [ok |-> TRUE, order |-> order]
CircularDependency == [ok |-> FALSE, order |-> <<>>]

\* The readiness-queue sort: among the nodes not yet emitted whose
\* predecessors have all been emitted, the one with the smallest key is emitted
\* next; if nodes remain and none is ready, the graph has a cycle.
RECURSIVE topological_sort_from(_, _, _)
topological_sort_from(g, key, emitted) ==
  LET done == Range(emitted)
      remaining == Range(g.nodes) \ done
      ready == {n \in remaining : predecessors(g, n) \subseteq done}
  IN IF remaining = {} THEN Sorted(emitted)
     ELSE IF ready = {} THEN CircularDependency
     ELSE LET n == CHOOSE n \in ready : \A m \in ready : key[n] <= key[m]
          IN topological_sort_from(g, key, Append(emitted, n))

topological_sort(g, key) == topological_sort_from(g, key, <<>>)

\* ---------------------------------------------- Repository._get_projects
\* A mutant of sorting_key: no sorting key is passed, and the sort breaks ties
\* by the insertion order of the nodes.
sorting_key_missing(g) == [n \in Range(g.nodes) |-> IndexOf(g.nodes, n)]

\* sorting_key=lambda p: p.id
sorting_key(g) == [n \in Range(g.nodes) |-> ProjectId(n)]

\* A mutant of link_dependency: the edge points from the dependent to the
\* dependency.
link_dependency_reversed(g, dep, project) ==
  add_edge(add_node(g, dep), project, dep)

\* A mutant of link_dependency: the dependency is added as a node, the edge is
\* forgotten.
link_dependency_no_edge(g, dep, project) == add_node(g, dep)

\* graph.add_node(dep, None); graph.add_edge(dep, project, None)
link_dependency(g, dep, project) ==
  add_edge(add_node(g, dep), dep, project)

\* A mutant of dependencies_to_link: every declared dependency name is linked,
\* whether or not a project of the repository has that name.
RECURSIVE SetToSeq(_)
SetToSeq(S) ==
  IF S = {} THEN <<>>
  ELSE LET x == CHOOSE x \in S : \A y \in S : x <= y
       IN <<x>> \o SetToSeq(S \ {x})

dependencies_to_link_declared(project, projects, deps) ==
  SetToSeq(deps[project] \ {dist_name(project)})

\* project.get_interdependencies(projects)
dependencies_to_link(project, projects, deps) ==
  get_interdependencies(project, projects, deps)

RECURSIVE link_dependencies(_, _, _)
link_dependencies(g, links, project) ==
  IF links = <<>> THEN g
  ELSE link_dependencies(link_dependency(g, Head(links), project), Tail(links), project)

\* A mutant of add_project: the project itself is not added as a node, so that
\* only projects with an edge are in the graph.
add_project_missing(g, project) == g

\* graph.add_node(project, None)
add_project(g, project) == add_node(g, project)

\* One iteration of the loop over the projects.
visit_project(g, project, projects, deps) ==
  link_dependencies(add_project(g, project),
                    dependencies_to_link(project, projects, deps), project)

RECURSIVE build_graph_from(_, _, _, _)
build_graph_from(g, rest, projects, deps) ==
  IF rest = <<>> THEN g
  ELSE build_graph_from(visit_project(g, Head(rest), projects, deps),
                        Tail(rest), projects, deps)

\* The graph of _get_projects: a node per project, an edge from each
\* interdependency of a project to the project.
build_graph(projects, deps) == build_graph_from(EmptyGraph, projects, projects, deps)

\* A mutant of _get_projects: the projects are not sorted and the topological
\* sort gets no sorting key.
_get_projects_unsorted(raw, deps) ==
  LET graph == build_graph(raw, deps)
  IN topological_sort(graph, sorting_key_missing(graph))

\* Repository._get_projects, applied to the list and the dependency
\* declarations the handler's get_projects returned.
_get_projects(raw, deps) ==
  LET projects == sorted_by_id(raw)
      graph == build_graph(projects, deps)
  IN topological_sort(graph, sorting_key(graph))

\* ------------------------------------------------------------ Repository
VARIABLES
  handler_name,  \* raw_config().get('repository', {}).get('handler')
  _handler,      \* Once(self._get_repository_handler)
  projects,      \* Once(self._get_projects)
  vcs,           \* Once(self._get_vcs)
  host,          \* Once(self._get_repository_host)
  found,         \* what the handler's get_projects returned when last invoked
  invoked,       \* how often each underlying computation has been executed
  last,          \* the last accessor call and its outcome
  failed,        \* some accessor call has raised
  nCalls,        \* number of accessor calls made
  threads        \* where each concurrent caller is in its call, and what it holds

vars == <<handler_name, _handler, projects, vcs, host, found, invoked, last, failed, nCalls,
          threads>>

\* Repository.directory
directory == "/repo"

\* The directories a project may be in: the repository's or one below it.
ProjectDirs == {directory, "/repo/pkg"}

\* The handler configuration: no handler named (None), the name of a
\* registered plugin, a name the plugin registry does not know, or a value that
\* is not a string.
HandlerNames == {"None", "plugin", "unknown", "nonstr"}

\* What a handler's get_projects returns: the projects in the handler's
\* enumeration order, the dependency names each one declares and the directory
\* of each.
Discovery(r, d, x) == [raw |-> r, deps |-> d, dirs |-> x]

NothingFound == Discovery(<<>>, <<>>, <<>>)

\* A Once cell: whether a value is cached, and the value.
Unset(v) == [cached |-> FALSE, value |-> v]
Cached(v) == [cached |-> TRUE, value |-> v]

\* Once.get answers from the cell when a value is cached and calls the
\* supplier otherwise.
once_cached(cell) == cell.cached

\* Once.get after a call of the supplier: a value it returned is cached; an
\* error it raised propagates and leaves the cell as it was.
once_store(cell, ok, value) == IF ok THEN Cached(value) ELSE cell

NoCall == [op |-> "none", err |-> "none", err_directory |-> "none",
           asked |-> "none", matched |-> FALSE, monorepo |-> FALSE]

\* No access of the handler: the accessor answered from its own cache.
NotAccessed ==
  [ok |-> TRUE, handler |-> "none", err |-> "none", err_directory |-> "none",
   asked |-> "none", default |-> FALSE, ran |-> FALSE]

\* The callers of the Repository.
Callers == 1..NumCallers

\* A caller that is in no call: pc is its position, op the accessor it called
\* last, h what self._handler.get() gave it, value and order what it holds or
\* was returned, err the error its call raised.
Idle == [pc |-> "idle", op |-> "none", h |-> NotAccessed, value |-> "none",
         order |-> <<>>, err |-> "none"]

\* Repository.__init__
Init ==
  /\ handler_name \in HandlerNames
  /\ _handler = Unset("none")
  /\ projects = Unset(<<>>)
  /\ vcs = Unset("none")
  /\ host = Unset("none")
  /\ found = NothingFound
  /\ invoked = [resolve |-> 0, default |-> 0, get_projects |-> 0, get_vcs |-> 0, get_host |-> 0]
  /\ last = NoCall
  /\ failed = FALSE
  /\ nCalls = 0
  /\ threads = [t \in Callers |-> Idle]

\* The outcome of a handler resolution: the handler or the error raised, which
\* handler was asked matches_repository and whether DefaultRepositoryHandler was
\* instantiated.
Resolved(h, who) ==
  [ok |-> TRUE, handler |-> h, err |-> "none", err_directory |-> "none",
   asked |-> who, default |-> who = "default", ran |-> TRUE]
Raised(e, d, who) ==
  [ok |-> FALSE, handler |-> "none", err |-> e, err_directory |-> d,
   asked |-> who, default |-> who = "default", ran |-> TRUE]

\* A mutant of _get_repository_handler: the default handler is instantiated and
\* asked before the configuration is looked at, and a mismatch raises
\* NotASlamRepository.
_get_repository_handler_default_first(name, matches) ==
  IF ~matches THEN Raised("NotASlamRepository", directory, "default")
  ELSE IF name = "None" THEN Resolved("default", "default")
  ELSE IF name = "nonstr" THEN Raised("AssertionError", "none", "default")
  ELSE IF name = "unknown" THEN Raised("PluginNotFound", "none", "default")
  ELSE Resolved("plugin", "default")

\* A mutant of _get_repository_handler: the test of the default handler's
\* matches_repository is missing.
_get_repository_handler_unchecked(name, matches) ==
  IF name = "None" THEN Resolved("default", "default")
  ELSE IF name = "nonstr" THEN Raised("AssertionError", "none", "none")
  ELSE IF name = "unknown" THEN Raised("PluginNotFound", "none", "none")
  ELSE IF ~matches THEN Raised("AssertionError", "none", "plugin")
  ELSE Resolved("plugin", "plugin")

\* A mutant of _get_repository_handler: the assertion on the configured
\* handler's matches_repository is missing.
_get_repository_handler_no_assert(name, matches) ==
  IF name = "None" THEN
    IF ~matches THEN Raised("NotASlamRepository", directory, "default")
    ELSE Resolved("default", "default")
  ELSE IF name = "nonstr" THEN Raised("AssertionError", "none", "none")
  ELSE IF name = "unknown" THEN Raised("PluginNotFound", "none", "none")
  ELSE Resolved("plugin", "plugin")

\* Repository._get_repository_handler; `matches` is what matches_repository
\* returns if it is asked.
_get_repository_handler(name, matches) ==
  IF name = "None" THEN
    IF ~matches THEN Raised("NotASlamRepository", directory, "default")
    ELSE Resolved("default", "default")
  ELSE IF name = "nonstr" THEN Raised("AssertionError", "none", "none")
  ELSE IF name = "unknown" THEN Raised("PluginNotFound", "none", "none")
  ELSE IF ~matches THEN Raised("AssertionError", "none", "plugin")
  ELSE Resolved("plugin", "plugin")

\* A mutant of handler_get: the accessor calls _get_repository_handler itself
\* instead of the Once cell that wraps it.
handler_get_direct(matches) == _get_repository_handler(handler_name, matches)

\* self._handler.get(): the cached handler, or a resolution.
handler_get(matches) ==
  IF once_cached(_handler)
  THEN [ok |-> TRUE, handler |-> _handler.value, err |-> "none", err_directory |-> "none",
        asked |-> "none", default |-> FALSE, ran |-> FALSE]
  ELSE _get_repository_handler(handler_name, matches)

\* A mutant of HandlerAfter: the cell is marked as cached whenever the supplier
\* was called, whether it returned or raised.
HandlerAfter_always(h) == IF h.ran THEN Cached(h.handler) ELSE _handler

\* Once.get of the handler cell: a handler that was resolved is cached, an
\* error leaves the cell as it was.
HandlerAfter(h) == IF h.ran THEN once_store(_handler, h.ok, h.handler) ELSE _handler

InvokedAfter(h) ==
  [invoked EXCEPT !.resolve = @ + (IF h.ran THEN 1 ELSE 0),
                  !.default = @ + (IF h.default THEN 1 ELSE 0)]

CallRecord(op, h, matches, err, dir, mono) ==
  [op |-> op, err |-> err, err_directory |-> dir, asked |-> h.asked,
   matched |-> (h.asked # "none" /\ matches), monorepo |-> mono]

\* A mutant of is_monorepo: the directory of a single project is not compared.
is_monorepo_any(value, dirs) == Len(value) >= 1

\* The condition of Repository.is_monorepo on the value of self.projects().
is_monorepo(value, dirs) ==
  Len(value) > 1 \/ (Len(value) = 1 /\ dirs[value[1]] # directory)

\* Repository.load()
Load ==
  /\ nCalls < MaxCalls
  /\ \E m \in BOOLEAN :
       LET h == handler_get(m)
       IN /\ _handler' = HandlerAfter(h)
          /\ invoked' = InvokedAfter(h)
          /\ last' = CallRecord("load", h, m, h.err, h.err_directory, FALSE)
          /\ failed' = (failed \/ ~h.ok)
  /\ nCalls' = nCalls + 1
  /\ UNCHANGED <<handler_name, projects, vcs, host, found, threads>>

\* The part of a first self.projects() after the handler h was obtained:
\* get_projects returns f, _get_projects orders it, and Once caches the list
\* unless the sort raised.
ComputeProjects(op, h, m, f) ==
  LET r == _get_projects(f.raw, f.deps)
  IN /\ found' = f
     /\ invoked' = [InvokedAfter(h) EXCEPT !.get_projects = @ + 1]
     /\ projects' = once_store(projects, r.ok, r.order)
     /\ last' = CallRecord(op, h, m,
                           IF r.ok THEN "none" ELSE "CircularDependency", "none",
                           op = "is_monorepo" /\ r.ok /\ is_monorepo(r.order, f.dirs))
     /\ failed' = (failed \/ ~r.ok)

\* self.projects(), called by op: "projects" for a call of Repository.projects(),
\* "is_monorepo" for a read of Repository.is_monorepo, which evaluates
\* self.projects() and, when that returns, its condition on the list.  The
\* handler's get_projects returns projects with ids up to U; it reads the
\* repository, which does not change while the Repository object lives, so a
\* second invocation returns what the first did.
ProjectsStep(U, op) ==
  /\ nCalls < MaxCalls
  /\ nCalls' = nCalls + 1
  /\ UNCHANGED <<handler_name, vcs, host, threads>>
  /\ \/ /\ once_cached(projects)
        /\ last' = CallRecord(op, NotAccessed, FALSE, "none", "none",
                              op = "is_monorepo" /\ is_monorepo(projects.value, found.dirs))
        /\ UNCHANGED <<_handler, projects, found, invoked, failed>>
     \/ /\ ~once_cached(projects)
        /\ \E m \in BOOLEAN :
             LET h == handler_get(m)
             IN /\ _handler' = HandlerAfter(h)
                /\ \/ /\ ~h.ok
                      /\ invoked' = InvokedAfter(h)
                      /\ last' = CallRecord(op, h, m, h.err, h.err_directory, FALSE)
                      /\ failed' = TRUE
                      /\ UNCHANGED <<projects, found>>
                   \/ /\ h.ok
                      /\ \/ /\ invoked.get_projects = 0
                            /\ \E S \in SUBSET (1..U) :
                                 \E r \in Enumerations(S), d \in [S -> SUBSET (1..U)],
                                    x \in [S -> ProjectDirs] :
                                   ComputeProjects(op, h, m, Discovery(r, d, x))
                         \/ /\ invoked.get_projects > 0
                            /\ ComputeProjects(op, h, m, found)

\* Repository.projects()
Projects == ProjectsStep(RepoProjects, "projects")

\* Repository.is_monorepo
IsMonorepo == ProjectsStep(RepoProjects, "is_monorepo")

\* What a handler's get_vcs may return.
VcsValues == {"None", "git"}

\* A mutant of Vcs: the vcs field wraps _get_projects.
Vcs_via_projects == ProjectsStep(RepoProjects, "vcs")

\* Repository.vcs()
Vcs ==
  /\ nCalls < MaxCalls
  /\ nCalls' = nCalls + 1
  /\ UNCHANGED <<handler_name, projects, host, found, threads>>
  /\ \/ /\ once_cached(vcs)
        /\ last' = CallRecord("vcs", NotAccessed, FALSE, "none", "none", FALSE)
        /\ UNCHANGED <<_handler, vcs, invoked, failed>>
     \/ /\ ~once_cached(vcs)
        /\ \E m \in BOOLEAN :
             LET h == handler_get(m)
             IN /\ _handler' = HandlerAfter(h)
                /\ last' = CallRecord("vcs", h, m, h.err, h.err_directory, FALSE)
                /\ failed' = (failed \/ ~h.ok)
                /\ \/ /\ ~h.ok
                      /\ invoked' = InvokedAfter(h)
                      /\ UNCHANGED vcs
                   \/ /\ h.ok
                      /\ invoked' = [InvokedAfter(h) EXCEPT !.get_vcs = @ + 1]
                      /\ \E v \in VcsValues : vcs' = once_store(vcs, TRUE, v)

\* What the call of get_repository_host may do on handler h: return a host or
\* None; a plugin that implements RepositoryHandlerPlugin as declared has no
\* method of that name (the interface declares get_vcs_remote), and the call
\* raises AttributeError.
HostOutcomes(h) ==
  {"None", "github"} \cup (IF h = "plugin" THEN {"AttributeError"} ELSE {})

\* Repository.host()
Host ==
  /\ nCalls < MaxCalls
  /\ nCalls' = nCalls + 1
  /\ UNCHANGED <<handler_name, projects, vcs, found, threads>>
  /\ \/ /\ once_cached(host)
        /\ last' = CallRecord("host", NotAccessed, FALSE, "none", "none", FALSE)
        /\ UNCHANGED <<_handler, host, invoked, failed>>
     \/ /\ ~once_cached(host)
        /\ \E m \in BOOLEAN :
             LET h == handler_get(m)
             IN /\ _handler' = HandlerAfter(h)
                /\ \/ /\ ~h.ok
                      /\ invoked' = InvokedAfter(h)
                      /\ last' = CallRecord("host", h, m, h.err, h.err_directory, FALSE)
                      /\ failed' = TRUE
                      /\ UNCHANGED host
                   \/ /\ h.ok
                      /\ \E v \in HostOutcomes(HandlerAfter(h).value) :
                           IF v = "AttributeError"
                           THEN /\ invoked' = InvokedAfter(h)
                                /\ last' = CallRecord("host", h, m, v, "none", FALSE)
                                /\ failed' = TRUE
                                /\ UNCHANGED host
                           ELSE /\ invoked' = [InvokedAfter(h) EXCEPT !.get_host = @ + 1]
                                /\ last' = CallRecord("host", h, m, "none", "none", FALSE)
                                /\ failed' = failed
                                /\ host' = once_store(host, TRUE, v)

Next == Load \/ Projects \/ Vcs \/ Host \/ IsMonorepo

Spec == Init /\ [][Next]_vars

\* Repository.projects() on the lists of up to MaxProjects projects.
SortProjects == ProjectsStep(MaxProjects, "projects")

NextProjects == SortProjects

SpecProjects == Init /\ [][NextProjects]_vars

\* ----------------------------------------------------- concurrent callers
\* Several callers use one Repository at the same time.  A call is a sequence
\* of steps, and the steps of different callers interleave: Once.get reads
\* whether a value is cached, calls the supplier if none is, stores what the
\* supplier returned and returns the stored value; neither Once.get nor
\* Repository holds a lock over these steps.

\* The accessors called concurrently.
ConcurrentOps == {"load", "projects", "vcs", "host"}

\* The Once cell of an accessor.
FieldCell(op) ==
  CASE op = "projects" -> projects
    [] op = "vcs" -> vcs
    [] op = "host" -> host

\* The call of caller t ends: it returns value (order for projects()) or
\* raises err.
Returns(t, h, value, order, err, dir) ==
  /\ threads' = [threads EXCEPT ![t] = [@ EXCEPT !.pc = "idle", !.h = h, !.value = value,
                                                  !.order = order, !.err = err]]
  /\ last' = CallRecord(threads[t].op, h, h.ok, err, dir, FALSE)
  /\ failed' = (failed \/ err # "none")

\* Caller t goes to position pc holding h, value and order.
Goes(t, pc, h, value, order) ==
  /\ threads' = [threads EXCEPT ![t] = [@ EXCEPT !.pc = pc, !.h = h, !.value = value,
                                                  !.order = order]]
  /\ UNCHANGED <<last, failed>>

\* Caller t calls load(), projects(), vcs() or host().
Call(t) ==
  /\ threads[t].pc = "idle"
  /\ nCalls < MaxCalls
  /\ nCalls' = nCalls + 1
  /\ \E op \in ConcurrentOps :
       threads' = [threads EXCEPT ![t] =
                     [Idle EXCEPT !.op = op,
                                  !.pc = IF op = "load" THEN "h_check" ELSE "f_check"]]
  /\ UNCHANGED <<handler_name, _handler, projects, vcs, host, found, invoked, last, failed>>

\* Once.get of the accessor's cell: is a value cached?
FieldCheck(t) ==
  /\ threads[t].pc = "f_check"
  /\ Goes(t, IF once_cached(FieldCell(threads[t].op)) THEN "f_return" ELSE "h_check",
          threads[t].h, threads[t].value, threads[t].order)
  /\ UNCHANGED <<handler_name, _handler, projects, vcs, host, found, invoked, nCalls>>

\* self._handler.get(): is a handler cached?
HandlerCheck(t) ==
  /\ threads[t].pc = "h_check"
  /\ IF once_cached(_handler)
     THEN Goes(t, "h_return", handler_get(FALSE), threads[t].value, threads[t].order)
     ELSE Goes(t, "h_supply", threads[t].h, threads[t].value, threads[t].order)
  /\ UNCHANGED <<handler_name, _handler, projects, vcs, host, found, invoked, nCalls>>

\* self._handler.get() calls its supplier, _get_repository_handler.
HandlerSupply(t) ==
  /\ threads[t].pc = "h_supply"
  /\ \E m \in BOOLEAN :
       LET h == _get_repository_handler(handler_name, m)
       IN /\ invoked' = InvokedAfter(h)
          /\ IF h.ok
             THEN Goes(t, "h_store", h, threads[t].value, threads[t].order)
             ELSE Returns(t, h, "none", <<>>, h.err, h.err_directory)
  /\ UNCHANGED <<handler_name, _handler, projects, vcs, host, found, nCalls>>

\* self._handler.get() stores the handler its supplier returned.
HandlerStore(t) ==
  /\ threads[t].pc = "h_store"
  /\ _handler' = once_store(_handler, TRUE, threads[t].h.handler)
  /\ Goes(t, "h_return", threads[t].h, threads[t].value, threads[t].order)
  /\ UNCHANGED <<handler_name, projects, vcs, host, found, invoked, nCalls>>

\* self._handler.get() returns the stored handler: load() ends, the supplier
\* of another accessor goes on to call the handler.
HandlerReturn(t) ==
  /\ threads[t].pc = "h_return"
  /\ LET h == [threads[t].h EXCEPT !.handler = _handler.value]
     IN IF threads[t].op = "load"
        THEN Returns(t, h, "none", <<>>, "none", "none")
        ELSE Goes(t, "f_invoke", h, threads[t].value, threads[t].order)
  /\ UNCHANGED <<handler_name, _handler, projects, vcs, host, found, invoked, nCalls>>

\* The rest of _get_projects in caller t: get_projects returned f.
OrderProjects(t, f) ==
  LET r == _get_projects(f.raw, f.deps)
  IN /\ found' = f
     /\ invoked' = [invoked EXCEPT !.get_projects = @ + 1]
     /\ IF r.ok
        THEN Goes(t, "f_store", threads[t].h, threads[t].value, r.order)
        ELSE Returns(t, threads[t].h, "none", <<>>, "CircularDependency", "none")

\* _get_projects in caller t.  No accessor called here reads the directory of a
\* project, so every project is in the repository's directory.
GetProjects(t) ==
  /\ threads[t].pc = "f_invoke" /\ threads[t].op = "projects"
  /\ \/ /\ invoked.get_projects = 0
        /\ \E S \in SUBSET (1..RepoProjects) :
             \E r \in Enumerations(S), d \in [S -> SUBSET (1..RepoProjects)] :
               OrderProjects(t, Discovery(r, d, [p \in S |-> directory]))
     \/ /\ invoked.get_projects > 0
        /\ OrderProjects(t, found)
  /\ UNCHANGED <<handler_name, _handler, projects, vcs, host, nCalls>>

\* _get_vcs in caller t.
GetVcs(t) ==
  /\ threads[t].pc = "f_invoke" /\ threads[t].op = "vcs"
  /\ invoked' = [invoked EXCEPT !.get_vcs = @ + 1]
  /\ \E v \in VcsValues : Goes(t, "f_store", threads[t].h, v, threads[t].order)
  /\ UNCHANGED <<handler_name, _handler, projects, vcs, host, found, nCalls>>

\* _get_repository_host in caller t.
GetHost(t) ==
  /\ threads[t].pc = "f_invoke" /\ threads[t].op = "host"
  /\ \E v \in HostOutcomes(threads[t].h.handler) :
       IF v = "AttributeError"
       THEN /\ Returns(t, threads[t].h, "none", <<>>, v, "none")
            /\ UNCHANGED invoked
       ELSE /\ Goes(t, "f_store", threads[t].h, v, threads[t].order)
            /\ invoked' = [invoked EXCEPT !.get_host = @ + 1]
  /\ UNCHANGED <<handler_name, _handler, projects, vcs, host, found, nCalls>>

\* Once.get of the accessor's cell stores what the supplier returned.
FieldStore(t) ==
  /\ threads[t].pc = "f_store"
  /\ \/ /\ threads[t].op = "projects"
        /\ projects' = once_store(projects, TRUE, threads[t].order)
        /\ UNCHANGED <<vcs, host>>
     \/ /\ threads[t].op = "vcs"
        /\ vcs' = once_store(vcs, TRUE, threads[t].value)
        /\ UNCHANGED <<projects, host>>
     \/ /\ threads[t].op = "host"
        /\ host' = once_store(host, TRUE, threads[t].value)
        /\ UNCHANGED <<projects, vcs>>
  /\ Goes(t, "f_return", threads[t].h, threads[t].value, threads[t].order)
  /\ UNCHANGED <<handler_name, _handler, found, invoked, nCalls>>

\* Once.get of the accessor's cell returns the stored value.
FieldReturn(t) ==
  /\ threads[t].pc = "f_return"
  /\ IF threads[t].op = "projects"
     THEN Returns(t, threads[t].h, "none", projects.value, "none", "none")
     ELSE Returns(t, threads[t].h, FieldCell(threads[t].op).value, <<>>, "none", "none")
  /\ UNCHANGED <<handler_name, _handler, projects, vcs, host, found, invoked, nCalls>>

NextConcurrent ==
  \E t \in Callers :
    \/ Call(t)
    \/ FieldCheck(t)
    \/ HandlerCheck(t)
    \/ HandlerSupply(t)
    \/ HandlerStore(t)
    \/ HandlerReturn(t)
    \/ GetProjects(t)
    \/ GetVcs(t)
    \/ GetHost(t)
    \/ FieldStore(t)
    \/ FieldReturn(t)

SpecConcurrent == Init /\ [][NextConcurrent]_vars

\* ======================================================== the properties
\* The projects the handler returned, and the list projects() returns.
Candidates == Range(found.raw)
Returned == projects.value

\* The interdependencies of project p among the candidates.
DependsOn(p) == Range(get_interdependencies(p, found.raw, found.deps))

\* The projects reached from the set P along at most k dependency edges.
RECURSIVE DepsWithin(_, _)
DepsWithin(P, k) ==
  IF k = 0 THEN P ELSE DepsWithin(P \cup UNION {DependsOn(q) : q \in P}, k - 1)

OnCycle(p) == p \in DepsWithin(DependsOn(p), Len(found.raw))
HasCycle == \E p \in Candidates : OnCycle(p)

\* The elements of the returned list before position k.
Before(k) == {Returned[i] : i \in 1..(k - 1)}

\* The projects not emitted before position k whose dependencies all were.
Eligible(k) == {p \in Candidates \ Before(k) : DependsOn(p) \subseteq Before(k)}

\* C1: in a list projects() returns, every interdependency of a project is at a
\* strictly smaller index than the project.
C1_DependenciesFirst ==
  projects.cached =>
    \A p \in Candidates : \A d \in DependsOn(p) :
      \E i, j \in DOMAIN Returned : Returned[i] = d /\ Returned[j] = p /\ i < j

\* C1 happens: a list was returned in which a project depends on a project with
\* a larger id.
C1_Witness ==
  projects.cached /\ \E p \in Candidates : \E d \in DependsOn(p) : ProjectId(d) > ProjectId(p)

\* C2: at every position of the returned list stands the project with the
\* smallest id among the projects not yet emitted whose dependencies have all
\* been emitted.
C2_TieBreak ==
  projects.cached =>
    \A k \in DOMAIN Returned :
      /\ Returned[k] \in Eligible(k)
      /\ \A q \in Eligible(k) : ProjectId(Returned[k]) <= ProjectId(q)

\* C2 happens: at some position two projects are eligible while a project with
\* a smaller id than the one emitted still waits for a dependency.
C2_Witness ==
  /\ projects.cached
  /\ \E k \in DOMAIN Returned :
       /\ Cardinality(Eligible(k)) >= 2
       /\ \E q \in (Candidates \ Before(k)) \ Eligible(k) : ProjectId(q) < ProjectId(Returned[k])

\* C3: with a cycle among the interdependencies, projects() caches no list, and
\* a call that reached the sort failed with the circular dependency error.
C3_CycleRejected ==
  HasCycle =>
    /\ ~projects.cached
    /\ (last.op = "projects" /\ _handler.cached) => last.err = "CircularDependency"

\* C3 happens: projects() failed on a cycle while some project has no
\* dependency at all, so that a partial list could have been formed.
C3_Witness ==
  /\ last.op = "projects" /\ last.err = "CircularDependency"
  /\ HasCycle
  /\ \E p \in Candidates : DependsOn(p) = {}

\* C4: a list projects() returns holds every project the handler returned
\* exactly once and nothing else.
C4_Permutation ==
  projects.cached =>
    /\ Range(Returned) = Candidates
    /\ \A i, j \in DOMAIN Returned : Returned[i] = Returned[j] => i = j

\* C4 happens: a list was returned for a repository with a dependency edge and
\* a project that is on no edge.
C4_Witness ==
  /\ projects.cached
  /\ \E p \in Candidates : DependsOn(p) # {}
  /\ \E p \in Candidates : DependsOn(p) = {} /\ \A q \in Candidates : p \notin DependsOn(q)

\* C5: the returned order is the order _get_projects computes for every
\* enumeration of the same projects with the same dependency declarations.
C5_EnumerationIndependent ==
  projects.cached =>
    \A e \in Enumerations(Candidates) : _get_projects(e, found.deps) = Sorted(Returned)

\* C5 happens: a list of several projects was returned although the handler
\* enumerated them in another order than that of the ids.
C5_Witness ==
  /\ projects.cached
  /\ Len(found.raw) >= 2
  /\ \E i, j \in DOMAIN found.raw : i < j /\ ProjectId(found.raw[i]) > ProjectId(found.raw[j])

\* The dependency names of p that no project of the repository has.
Dangling(p) == found.deps[p] \ {dist_name(q) : q \in Candidates}

\* The dependency declarations without the dangling names.
WithoutDangling == [p \in DOMAIN found.deps |-> found.deps[p] \ Dangling(p)]

\* C6: a dangling dependency name adds no node and no edge to the graph, and
\* projects() returns the list, or fails, as it does for the declarations
\* without the dangling names.
C6_DanglingIgnored ==
  invoked.get_projects > 0 =>
    LET graph == build_graph(sorted_by_id(found.raw), found.deps)
        plain == _get_projects(found.raw, WithoutDangling)
    IN /\ Range(graph.nodes) \subseteq Candidates
       /\ graph.edges \subseteq Candidates \X Candidates
       /\ plain.ok => projects.cached /\ Returned = plain.order
       /\ ~plain.ok => ~projects.cached /\ last.err = "CircularDependency"

\* C6 happens: a list was returned for a project that declares a dangling name
\* and a dependency on a project of the repository.
C6_Witness ==
  /\ projects.cached
  /\ \E p \in Candidates : Dangling(p) # {} /\ DependsOn(p) # {}

\* C7: a read of is_monorepo that returns yields FALSE for no project, TRUE for
\* several, and for a single project whether its directory differs from the
\* repository's.
C7_IsMonorepo ==
  (last.op = "is_monorepo" /\ last.err = "none") =>
    /\ projects.cached
    /\ Len(Returned) = 0 => last.monorepo = FALSE
    /\ Len(Returned) = 1 => last.monorepo = (found.dirs[Returned[1]] # directory)
    /\ Len(Returned) >= 2 => last.monorepo = TRUE

\* C7 happens: is_monorepo was read on a repository whose only project is in
\* the repository's directory.
C7_Witness ==
  /\ last.op = "is_monorepo" /\ last.err = "none"
  /\ Len(Returned) = 1 /\ found.dirs[Returned[1]] = directory

\* C8: as long as no access has failed, the handler resolution has run exactly
\* once if any access was made, and get_projects, get_vcs and
\* get_repository_host have each run once if their field was accessed and not
\* at all otherwise.
C8_SingleEvaluation ==
  ~failed =>
    /\ invoked.resolve = (IF nCalls > 0 THEN 1 ELSE 0)
    /\ invoked.get_projects = (IF projects.cached THEN 1 ELSE 0)
    /\ invoked.get_vcs = (IF vcs.cached THEN 1 ELSE 0)
    /\ invoked.get_host = (IF host.cached THEN 1 ELSE 0)
    /\ last.op \in {"projects", "is_monorepo"} => projects.cached
    /\ last.op = "vcs" => vcs.cached
    /\ last.op = "host" => host.cached

\* C8 happens: a field was accessed a second time, after another accessor had
\* resolved the handler, and no access failed.
C8_Witness ==
  /\ ~failed
  /\ nCalls = MaxCalls
  /\ last.op = "vcs" /\ last.asked = "none"
  /\ vcs.cached /\ invoked.get_vcs = 1 /\ invoked.resolve = 1

\* C9: with no handler configured, a load() in which the default handler's
\* matches_repository returned false raised NotASlamRepository with the
\* repository's directory and bound no handler.
C9_NotASlamRepository ==
  (last.op = "load" /\ handler_name = "None" /\ last.asked = "default" /\ ~last.matched) =>
    /\ last.err = "NotASlamRepository"
    /\ last.err_directory = directory
    /\ ~_handler.cached

\* C9 happens: load() asked the default handler, which did not match.
C9_Witness ==
  /\ last.op = "load" /\ handler_name = "None"
  /\ last.asked = "default" /\ ~last.matched
  /\ last.err = "NotASlamRepository"

\* C10: with a handler configured, the default handler is never instantiated
\* nor asked, no call raises NotASlamRepository, and a call in which the
\* configured handler did not match raised an AssertionError.
C10_ExplicitHandler ==
  handler_name # "None" =>
    /\ invoked.default = 0
    /\ last.asked # "default"
    /\ last.err # "NotASlamRepository"
    /\ (last.asked = "plugin" /\ ~last.matched) => last.err = "AssertionError"

\* C10 happens: the configured plugin was asked and did not match.
C10_Witness ==
  /\ handler_name = "plugin"
  /\ last.asked = "plugin" /\ ~last.matched
  /\ last.err = "AssertionError"

\* A computation of the field has run and raised: it ran, and nothing is
\* cached (what a computation returns is cached and stays cached).
HandlerFailed == invoked.resolve > 0 /\ ~_handler.cached
ProjectsFailed == invoked.get_projects > 0 /\ ~projects.cached

\* C11: a lazy field whose computation failed stays failed: every later access
\* raises again and the computation is not executed again.  After a failed
\* handler resolution every accessor needs the handler; after a failed
\* ordering of the projects, projects() and is_monorepo need the list.
C11_PermanentFailure ==
  [][/\ HandlerFailed =>
          /\ HandlerFailed'
          /\ invoked'.resolve = invoked.resolve
          /\ last'.err # "none"
     /\ (ProjectsFailed /\ last'.op \in {"projects", "is_monorepo"}) =>
          /\ ProjectsFailed'
          /\ invoked'.get_projects = invoked.get_projects
          /\ last'.err = "CircularDependency"]_vars

\* C12: a handler that was resolved and a list that projects() returned stay
\* what they are in every later step, and neither the resolution nor the
\* discovery of the projects is executed again.
C12_Stable ==
  [][/\ _handler.cached =>
          /\ _handler' = _handler
          /\ invoked'.resolve = invoked.resolve
          /\ invoked'.default = invoked.default
     /\ projects.cached =>
          /\ projects' = projects
          /\ found' = found
          /\ invoked'.get_projects = invoked.get_projects]_vars

\* C12 happens: after the handler was resolved and the list computed, the list
\* was read again by the last of the calls.
C12_Witness ==
  /\ nCalls = MaxCalls
  /\ _handler.cached /\ projects.cached /\ Len(Returned) >= 2
  /\ last.op \in {"projects", "is_monorepo"} /\ last.asked = "none"
  /\ invoked.resolve = 1 /\ invoked.get_projects = 1

\* Caller t has returned from a call of op that raised nothing.
ReturnedFrom(t, op) ==
  threads[t].pc = "idle" /\ threads[t].op = op /\ threads[t].err = "none"

\* C13: when callers access the same unresolved lazy field at the same time,
\* its computation is executed by one of them only and they are returned the
\* same result: as long as no call has raised, no computation has run twice
\* and two callers that returned from the same accessor hold the same value.
C13_ComputedOnce ==
  ~failed =>
    /\ invoked.resolve <= 1
    /\ invoked.get_projects <= 1
    /\ invoked.get_vcs <= 1
    /\ invoked.get_host <= 1
    /\ \A s, t \in Callers : \A op \in ConcurrentOps :
         (ReturnedFrom(s, op) /\ ReturnedFrom(t, op)) =>
           /\ threads[s].value = threads[t].value
           /\ threads[s].order = threads[t].order

\* The step is an accessor call (and not a step that changes nothing).
Called(op) == nCalls' = nCalls + 1 /\ last'.op = op

\* C14: vcs() and host() are memoized independently of projects(): a call of
\* vcs() or host() does not invoke get_projects and leaves the projects field
\* as it is; a call of projects() (or a read of is_monorepo) does not invoke
\* get_vcs or get_repository_host and leaves those fields as they are; and
\* after projects() has failed on a cycle, vcs() returns and caches its value
\* and host() fails only where it fails without the cycle (the handler has no
\* get_repository_host).
C14_Independent ==
  [][/\ (Called("vcs") \/ Called("host")) =>
          /\ invoked'.get_projects = invoked.get_projects
          /\ projects' = projects
          /\ found' = found
     /\ (Called("projects") \/ Called("is_monorepo")) =>
          /\ invoked'.get_vcs = invoked.get_vcs
          /\ invoked'.get_host = invoked.get_host
          /\ vcs' = vcs
          /\ host' = host
     /\ (ProjectsFailed /\ Called("vcs")) =>
          /\ last'.err = "none"
          /\ vcs'.cached
     /\ (ProjectsFailed /\ Called("host")) =>
          /\ last'.err \in {"none", "AttributeError"}
          /\ last'.err = "none" => host'.cached
          /\ _handler.value = "default" => last'.err = "none"]_vars

\* C14 happens: projects() has failed on a cycle, and the call of vcs() after
\* it invoked get_vcs and returned.
C14_Witness ==
  /\ ProjectsFailed /\ HasCycle
  /\ last.op = "vcs" /\ last.err = "none"
  /\ vcs.cached /\ invoked.get_vcs = 1
  /\ ~projects.cached /\ ~host.cached

\* The error a resolution of the handler raises under the configuration.
ResolutionError ==
  CASE handler_name = "None" -> "NotASlamRepository"
    [] handler_name = "unknown" -> "PluginNotFound"
    [] OTHER -> "AssertionError"

\* The Once cell the accessor op reads first.
TriggeringCell(op) ==
  CASE op = "load" -> _handler
    [] op \in {"projects", "is_monorepo"} -> projects
    [] op = "vcs" -> vcs
    [] op = "host" -> host

\* The last call ran the resolution of the handler, and the resolution raised:
\* the handler that was asked did not match, or the configuration names no
\* plugin (no handler is ever resolved under it, so every call runs the
\* resolution).
ResolutionFailed ==
  /\ last.op # "none"
  /\ \/ last.asked # "none" /\ ~last.matched
     \/ handler_name \in {"unknown", "nonstr"}

\* C15: an error of the handler resolution reaches the caller of the accessor
\* that triggered it as it was raised (NotASlamRepository carrying the
\* repository's directory, the failed assertion, the plugin lookup error), and
\* the field of that accessor holds no value afterwards: no cell is filled by
\* a call whose resolution failed.
C15_Propagates ==
  ResolutionFailed =>
    /\ last.err = ResolutionError
    /\ last.err_directory = (IF handler_name = "None" THEN directory ELSE "none")
    /\ failed
    /\ ~_handler.cached
    /\ ~TriggeringCell(last.op).cached

\* C15 happens: the read of is_monorepo triggered a resolution in which the
\* default handler did not match.
C15_Witness ==
  /\ ResolutionFailed
  /\ last.op = "is_monorepo"
  /\ last.err = "NotASlamRepository" /\ last.err_directory = directory
  /\ last.asked = "default" /\ ~last.matched
  /\ invoked.resolve >= 1

\* C16: get_projects, get_vcs and get_repository_host are invoked on a resolved
\* handler only: the handler is cached in a step whose matches_repository
\* returned true for it, a step that invokes one of the three ends with the
\* handler cached, and load() invokes none of them and fills no other field.
C16_AfterResolution ==
  [][/\ (~_handler.cached /\ _handler'.cached) =>
          /\ last'.asked \in {"default", "plugin"}
          /\ last'.matched
          /\ _handler'.value = last'.asked
     /\ (\/ invoked'.get_projects # invoked.get_projects
         \/ invoked'.get_vcs # invoked.get_vcs
         \/ invoked'.get_host # invoked.get_host) =>
          /\ _handler'.cached
          /\ _handler'.value \in {"default", "plugin"}
     /\ Called("load") =>
          /\ invoked'.get_projects = invoked.get_projects
          /\ invoked'.get_vcs = invoked.get_vcs
          /\ invoked'.get_host = invoked.get_host
          /\ projects' = projects /\ vcs' = vcs /\ host' = host /\ found' = found]_vars

\* C16 happens: load() resolved the configured handler, which matched, and no
\* method of it other than matches_repository has been invoked; the calls
\* before it had failed to resolve the handler.
C16_Witness ==
  /\ last.op = "load" /\ last.asked = "plugin" /\ last.matched
  /\ _handler = Cached("plugin")
  /\ nCalls >= 2
  /\ invoked.get_projects = 0 /\ invoked.get_vcs = 0 /\ invoked.get_host = 0
  /\ ~projects.cached /\ ~vcs.cached /\ ~host.cached
====
